---------------------------- MODULE Spec2Model ----------------------------
(***************************************************************************)
(* Model of televoltaic's routing engine:                                  *)
(*   routing/api.py         BasePattern (compile, load_handler, fq_name),  *)
(*                          Include, patterns, flatten                     *)
(*   routing/dispatcher.py  Dispatcher.__init__, Dispatcher.match          *)
(*   routing/patterns.py    the legacy Router                              *)
(*                                                                         *)
(* Python str values are sequences of tokens (characters, or identifiers   *)
(* in dotted paths and include targets), so that startswith / lstrip /     *)
(* split / rpartition / regex matching are computed on the tokens.  Python *)
(* None is the value None below.                                           *)
(***************************************************************************)
EXTENDS Integers, Sequences, FiniteSets, TLC

VARIABLES
    patterns,   \* Dispatcher.patterns: the flat list handed to __init__
    compiled,   \* BasePattern._compiled of each element of patterns
    handler,    \* BasePattern._handler of each element of patterns
    phase,      \* "new" | "ready" (constructed) | "failed" (__init__ raised)
    call,       \* the last Dispatcher.match call: its update and its outcome
    env,        \* what import_module / getattr answer (the module system)
    \* concurrent match calls, each running load_handler line by line
    threads,    \* per worker thread: where its match call stands, its locals
    nImport,    \* per pattern: how many times import_module ran for its handler
    nWrite,     \* per pattern: how many times its _handler slot was assigned
    lastFail,   \* per pattern: the last HandlerLoaderError raised for it
    \* flatten
    tables,     \* per module: its urlpatterns list (the entries' current fields)
    declared,   \* tables as they were when flatten was called
    fl,         \* the flatten call: running / returned / raised
    stack,      \* the recursion of flatten: one frame per active call
    seen,       \* the _seen set shared by the recursive calls
    result,     \* the list the outermost flatten returned
    resolved,   \* the Include targets resolved so far, in order
    pcall,      \* the last patterns(namespace, *entries) call and what it returned
    \* legacy Router
    router,     \* Router.commands (a dict), Router.callbacks, Router.messages
    regs        \* the add_command / add_callback / add_message calls made, in order

dispVars == <<patterns, compiled, handler, phase, call, env>>
loadVars == <<threads, nImport, nWrite, lastFail>>
flatVars == <<tables, declared, fl, stack, seen, result, resolved, pcall>>
routerVars == <<router, regs>>
vars == <<dispVars, loadVars, flatVars, routerVars>>

---------------------------------------------------------------------------
(* Bounds of the model. *)
MaxPatterns == 2
MaxTextLen == 3
MaxDataLen == 2

MaxEntries == 2
MaxCalls == 2
NThreads == 2

---------------------------------------------------------------------------
(* Values. *)

\* Python None, for str-typed slots (a token no alphabet contains).
None == <<"None">>

\* bool(x) of an optional str: None and "" are falsy.
Truthy(s) == s # None /\ s # <<>>

\* Python None, for object-typed slots (handlers, module attributes).
NoObj == [callable |-> FALSE, id |-> "None"]

RECURSIVE SeqsUpTo(_, _)
SeqsUpTo(A, n) ==
    IF n = 0 THEN {<<>>}
    ELSE LET shorter == SeqsUpTo(A, n - 1)
         IN shorter \cup {Append(s, c) : s \in shorter, c \in A}

TextAlphabet == {"/", " ", "a"}
DataAlphabet == {"a", "b"}
Texts == SeqsUpTo(TextAlphabet, MaxTextLen) \cup {None}
Datas == SeqsUpTo(DataAlphabet, MaxDataLen) \cup {None}

\* An update as match reads it: update.message.text and
\* update.callback_query.data, each None when the attribute chain is absent.
Updates == [text : Texts, data : Datas]

---------------------------------------------------------------------------
(* str helpers, computed on the characters. *)

IsSpace(c) == c = " "

RECURSIVE lstrip(_, _)
lstrip(s, c) ==
    IF s # <<>> /\ Head(s) = c THEN lstrip(Tail(s), c) ELSE s

RECURSIVE SplitFrom(_, _, _)
SplitFrom(s, cur, acc) ==
    IF s = <<>>
    THEN IF cur = <<>> THEN acc ELSE Append(acc, cur)
    ELSE IF IsSpace(Head(s))
         THEN SplitFrom(Tail(s), <<>>, IF cur = <<>> THEN acc ELSE Append(acc, cur))
         ELSE SplitFrom(Tail(s), Append(cur, Head(s)), acc)

\* str.split() with no separator: the maximal runs of non-whitespace.
split(s) == SplitFrom(s, <<>>, <<>>)

startswith(s, c) == s # <<>> /\ Head(s) = c

\* Index of the last occurrence of token c in s, 0 when there is none.
RECURSIVE LastIndex(_, _, _)
LastIndex(s, c, i) ==
    IF i = 0 THEN 0 ELSE IF s[i] = c THEN i ELSE LastIndex(s, c, i - 1)

\* str.rpartition(c): (head, sep, tail), ("", "", s) when c does not occur.
rpartition(s, c) ==
    LET i == LastIndex(s, c, Len(s))
    IN IF i = 0
       THEN [head |-> <<>>, sep |-> <<>>, tail |-> s]
       ELSE [head |-> SubSeq(s, 1, i - 1), sep |-> <<c>>, tail |-> SubSeq(s, i + 1, Len(s))]

---------------------------------------------------------------------------
(* Regular expressions: literals with the anchors ^ and $; "(" alone is    *)
(* an unterminated group, which re.compile rejects.                        *)

NotCompiled == [ok |-> FALSE, prog |-> <<>>]

ReValid(src) == \A i \in 1..Len(src) : src[i] # "("

\* re.compile(src) for a valid source: the matcher object.
re_compile(src) == [ok |-> TRUE, prog |-> src]

NoMatch == [found |-> FALSE, start |-> 0, end |-> 0]

\* Where a match of prog that starts at pos (1-based) ends, 0 for no match.
RECURSIVE MatchEnd(_, _, _)
MatchEnd(prog, s, pos) ==
    IF prog = <<>> THEN pos
    ELSE LET t == Head(prog)
         IN IF t = "^"
            THEN IF pos = 1 THEN MatchEnd(Tail(prog), s, pos) ELSE 0
            ELSE IF t = "$"
            THEN IF pos = Len(s) + 1 THEN MatchEnd(Tail(prog), s, pos) ELSE 0
            ELSE IF pos <= Len(s) /\ s[pos] = t
                 THEN MatchEnd(Tail(prog), s, pos + 1)
                 ELSE 0

MatchObj(pos, e) == [found |-> TRUE, start |-> pos - 1, end |-> e - 1]

\* Pattern.match(s): a match starting at offset 0 only.
re_match_mut(c, s) ==
    LET hits == {p \in 1..(Len(s) + 1) : MatchEnd(c.prog, s, p) # 0}
    IN IF hits = {} THEN NoMatch
       ELSE LET p == CHOOSE q \in hits : \A r \in hits : q <= r
            IN MatchObj(p, MatchEnd(c.prog, s, p))

re_match(c, s) ==
    LET e == MatchEnd(c.prog, s, 1)
    IN IF e = 0 THEN NoMatch ELSE MatchObj(1, e)

\* Pattern.search(s): the leftmost match at any offset.
re_search_mut(c, s) ==
    LET e == MatchEnd(c.prog, s, 1)
    IN IF e = 0 THEN NoMatch ELSE MatchObj(1, e)

re_search(c, s) ==
    LET hits == {p \in 1..(Len(s) + 1) : MatchEnd(c.prog, s, p) # 0}
    IN IF hits = {} THEN NoMatch
       ELSE LET p == CHOOSE q \in hits : \A r \in hits : q <= r
            IN MatchObj(p, MatchEnd(c.prog, s, p))

---------------------------------------------------------------------------
(* The module system, as load_handler sees it through import_module and    *)
(* getattr.  env[path].imp is "ok" or the exception importing path raises; *)
(* env[path].attrs gives the module's attributes.                          *)

H == [callable |-> TRUE, id |-> "H"]
G == [callable |-> TRUE, id |-> "G"]
V == [callable |-> FALSE, id |-> "V"]

AttrNames == {<<"h">>, <<"g">>, <<"v">>, <<"x">>}

\* Module m defines h and g (callables) and v (not callable), and no x;
\* importing module n fails; importing module c runs bootstrap code that
\* raises ConfigurationError.
StaticEnv ==
    (<<"m">> :> [imp |-> "ok",
                 attrs |-> (<<"h">> :> H @@ <<"g">> :> G @@ <<"v">> :> V @@ <<"x">> :> NoObj)])
    @@ (<<"n">> :> [imp |-> "ModuleNotFoundError",
                    attrs |-> [a \in AttrNames |-> NoObj]])
    @@ (<<"c">> :> [imp |-> "ConfigurationError",
                    attrs |-> [a \in AttrNames |-> NoObj]])

\* importlib.import_module(path): the module, or the exception it raises.
import_module(e, path) ==
    IF path \notin DOMAIN e
    THEN [raised |-> TRUE, exc |-> "ModuleNotFoundError", module |-> <<>>]
    ELSE IF e[path].imp # "ok"
         THEN [raised |-> TRUE, exc |-> e[path].imp, module |-> <<>>]
         ELSE [raised |-> FALSE, exc |-> "", module |-> path]

\* getattr(module, attr, None)
getattr(e, module, attr) ==
    IF attr \in DOMAIN e[module].attrs THEN e[module].attrs[attr] ELSE NoObj

---------------------------------------------------------------------------
(* BasePattern *)

RegexKinds == {"callback", "message"}

\* What a call of a method of the pattern gives back: a value or an exception.
Raise(exc, msg) == [raised |-> TRUE, exc |-> exc, msg |-> msg, value |-> NoObj]
Return(v) == [raised |-> FALSE, exc |-> "", msg |-> "", value |-> v]

\* BasePattern.compile on a pattern whose _compiled is c: the new _compiled,
\* or re.error.
compile(p, c) ==
    IF p.kind \in RegexKinds /\ c = NotCompiled
    THEN IF ReValid(p.pattern)
         THEN [raised |-> FALSE, compiled |-> re_compile(p.pattern)]
         ELSE [raised |-> TRUE, compiled |-> c]
    ELSE [raised |-> FALSE, compiled |-> c]

\* BasePattern.load_handler on a pattern whose _handler is cached, run to
\* completion: the outcome; `slot` is _handler afterwards, `imported` whether
\* import_module was called.
load_handler(p, cached, e) ==
    IF cached # NoObj
    THEN [out |-> Return(cached), slot |-> cached, imported |-> FALSE]
    ELSE
    LET parts == rpartition(p.handler_path, ".")
        module_path == parts.head
        attr == parts.tail
    IN  IF module_path = <<>> \/ attr = <<>>
        THEN [out |-> Raise("HandlerLoaderError", "Invalid handler path"),
              slot |-> cached, imported |-> FALSE]
        ELSE
        LET imp == import_module(e, module_path)
        IN  IF imp.raised
            THEN [out |-> Raise("HandlerLoaderError", "Cannot import module"),
                  slot |-> cached, imported |-> TRUE]
            ELSE
            LET handler_obj == getattr(e, imp.module, attr)
            IN  IF handler_obj = NoObj
                THEN [out |-> Raise("HandlerLoaderError", "Attribute not found"),
                      slot |-> cached, imported |-> TRUE]
                ELSE IF ~handler_obj.callable
                THEN [out |-> Raise("HandlerLoaderError", "Handler is not callable"),
                      slot |-> cached, imported |-> TRUE]
                ELSE [out |-> Return(handler_obj), slot |-> handler_obj,
                      imported |-> TRUE]

---------------------------------------------------------------------------
(* Dispatcher *)

CommandLiterals == {<<"a">>, <<"a", "a">>}
RegexSources == {<<"a">>, <<"^", "a">>, <<"(">>}
DispatchHandlerPaths == {<<"m", ".", "h">>, <<"m", ".", "x">>, <<"c", ".", "h">>}

\* The pattern declarations command(...), callback(...), message(...) give.
PatternDecls ==
    [kind : {"command"}, pattern : CommandLiterals, handler_path : DispatchHandlerPaths]
    \cup [kind : RegexKinds, pattern : RegexSources, handler_path : DispatchHandlerPaths]

RECURSIVE ListsUpTo(_, _)
ListsUpTo(S, n) ==
    IF n = 0 THEN {<<>>}
    ELSE LET shorter == ListsUpTo(S, n - 1)
         IN shorter \cup {Append(l, x) : l \in shorter, x \in S}

PatternLists == ListsUpTo(PatternDecls, MaxPatterns)

\* The loop of Dispatcher.__init__ from element i on: p.compile() for each p,
\* stopping at the first re.error.
RECURSIVE CompileAll(_, _, _)
CompileAll(pats, comp, i) ==
    IF i > Len(pats) THEN [raised |-> FALSE, compiled |-> comp]
    ELSE LET r == compile(pats[i], comp[i])
         IN IF r.raised
            THEN [raised |-> TRUE, compiled |-> comp]
            ELSE CompileAll(pats, [comp EXCEPT ![i] = r.compiled], i + 1)

\* The command token of match: [raised, cmd]; raised is the IndexError of
\* split()[0] on a text that holds no word after its slashes.
CommandToken(text) ==
    IF Truthy(text) /\ startswith(text, "/")
    THEN LET words == split(lstrip(text, "/"))
         IN IF words = <<>>
            THEN [raised |-> TRUE, cmd |-> None]
            ELSE [raised |-> FALSE, cmd |-> words[1]]
    ELSE [raised |-> FALSE, cmd |-> None]

NoHit == [idx |-> 0, m |-> NoMatch, assert |-> FALSE]

\* for p in self.patterns: if p.kind == "command" and p.pattern == cmd
RECURSIVE ScanCommandMut(_, _, _)
ScanCommandMut(pats, cmd, i) ==
    IF i > Len(pats) THEN NoHit
    ELSE LET rest == ScanCommandMut(pats, cmd, i + 1)
         IN IF rest.idx # 0 THEN rest
            ELSE IF pats[i].kind = "command" /\ pats[i].pattern = cmd
                 THEN [idx |-> i, m |-> NoMatch, assert |-> FALSE]
                 ELSE NoHit

RECURSIVE ScanCommand(_, _, _)
ScanCommand(pats, cmd, i) ==
    IF i > Len(pats) THEN NoHit
    ELSE IF pats[i].kind = "command" /\ pats[i].pattern = cmd
         THEN [idx |-> i, m |-> NoMatch, assert |-> FALSE]
         ELSE ScanCommand(pats, cmd, i + 1)

\* for p in self.patterns: if p.kind == "callback": assert p._compiled;
\* m = p._compiled.match(cb_data); if m: ...
RECURSIVE ScanCallback(_, _, _, _)
ScanCallback(pats, comp, cb_data, i) ==
    IF i > Len(pats) THEN NoHit
    ELSE IF pats[i].kind = "callback"
         THEN IF ~comp[i].ok
              THEN [idx |-> i, m |-> NoMatch, assert |-> TRUE]
              ELSE LET m == re_match(comp[i], cb_data)
                   IN IF m.found
                      THEN [idx |-> i, m |-> m, assert |-> FALSE]
                      ELSE ScanCallback(pats, comp, cb_data, i + 1)
         ELSE ScanCallback(pats, comp, cb_data, i + 1)

\* for p in self.patterns: if p.kind == "message": assert p._compiled;
\* m = p._compiled.search(text); if m: ...
RECURSIVE ScanMessage(_, _, _, _)
ScanMessage(pats, comp, text, i) ==
    IF i > Len(pats) THEN NoHit
    ELSE IF pats[i].kind = "message"
         THEN IF ~comp[i].ok
              THEN [idx |-> i, m |-> NoMatch, assert |-> TRUE]
              ELSE LET m == re_search(comp[i], text)
                   IN IF m.found
                      THEN [idx |-> i, m |-> m, assert |-> FALSE]
                      ELSE ScanMessage(pats, comp, text, i + 1)
         ELSE ScanMessage(pats, comp, text, i + 1)

\* Outcomes of a match call.  kind: "match" (a MatchResult), "absent" (None),
\* "raise"; idx is the index of the MatchResult's pattern, or of the pattern
\* whose load_handler raised (0 when no pattern is involved).
Absent == [kind |-> "absent", idx |-> 0, handler |-> NoObj, m |-> NoMatch,
           exc |-> "", msg |-> ""]
Raised(i, exc, msg) == [kind |-> "raise", idx |-> i, handler |-> NoObj,
                        m |-> NoMatch, exc |-> exc, msg |-> msg]
MatchResult(i, h, m) == [kind |-> "match", idx |-> i, handler |-> h, m |-> m,
                         exc |-> "", msg |-> ""]

\* Select, resolving the handler of every pattern of the list speculatively.
SelectSpeculative(pats, hs, e, hit) ==
    LET all == [i \in 1..Len(pats) |-> load_handler(pats[i], hs[i], e)]
        r == all[hit.idx]
    IN [res |-> IF r.out.raised
                THEN Raised(hit.idx, r.out.exc, r.out.msg)
                ELSE MatchResult(hit.idx, r.out.value, hit.m),
        handler |-> [i \in 1..Len(pats) |-> all[i].slot],
        loaded |-> 1..Len(pats)]

\* handler = p.load_handler(); return MatchResult(pattern=p, handler=handler,
\* match=m) for the hit of a scan.  loaded lists the patterns load_handler was
\* called on.
Select(pats, hs, e, hit) ==
    IF hit.assert
    THEN [res |-> Raised(hit.idx, "AssertionError", ""), handler |-> hs, loaded |-> {}]
    ELSE LET r == load_handler(pats[hit.idx], hs[hit.idx], e)
         IN [res |-> IF r.out.raised
                     THEN Raised(hit.idx, r.out.exc, r.out.msg)
                     ELSE MatchResult(hit.idx, r.out.value, hit.m),
             handler |-> [hs EXCEPT ![hit.idx] = r.slot],
             loaded |-> {hit.idx}]

\* The tiers of match with the callback tier consulted before the command tier.
FindHitCallbackFirst(pats, comp, update) ==
    LET text == update.text
        tok == CommandToken(text)
        cb_data == update.data
        hit1 == IF Truthy(tok.cmd) THEN ScanCommand(pats, tok.cmd, 1) ELSE NoHit
        hit2 == IF Truthy(cb_data) THEN ScanCallback(pats, comp, cb_data, 1) ELSE NoHit
        hit3 == IF Truthy(text) THEN ScanMessage(pats, comp, text, 1) ELSE NoHit
    IN  IF tok.raised THEN [raised |-> TRUE, hit |-> NoHit]
        ELSE IF hit2.idx # 0 THEN [raised |-> FALSE, hit |-> hit2]
        ELSE IF hit1.idx # 0 THEN [raised |-> FALSE, hit |-> hit1]
        ELSE IF hit3.idx # 0 THEN [raised |-> FALSE, hit |-> hit3]
        ELSE [raised |-> FALSE, hit |-> NoHit]

\* The tiers of match as an else-if chain: a later tier is consulted only
\* when the features of the earlier tiers are absent.
FindHitElseIf(pats, comp, update) ==
    LET text == update.text
        tok == CommandToken(text)
        cb_data == update.data
    IN  IF tok.raised THEN [raised |-> TRUE, hit |-> NoHit]
        ELSE IF Truthy(tok.cmd)
             THEN [raised |-> FALSE, hit |-> ScanCommand(pats, tok.cmd, 1)]
        ELSE IF Truthy(cb_data)
             THEN [raised |-> FALSE, hit |-> ScanCallback(pats, comp, cb_data, 1)]
        ELSE IF Truthy(text)
             THEN [raised |-> FALSE, hit |-> ScanMessage(pats, comp, text, 1)]
        ELSE [raised |-> FALSE, hit |-> NoHit]

\* Dispatcher.match up to the call of load_handler: the feature extraction and
\* the three tiers.  raised is the IndexError of the feature extraction; hit
\* is the pattern the scans stop at (NoHit: the code reaches `return None`).
FindHit(pats, comp, update) ==
    LET text == update.text
        tok == CommandToken(text)
        cb_data == update.data
        hit1 == IF Truthy(tok.cmd) THEN ScanCommand(pats, tok.cmd, 1) ELSE NoHit
        hit2 == IF Truthy(cb_data) THEN ScanCallback(pats, comp, cb_data, 1) ELSE NoHit
        hit3 == IF Truthy(text) THEN ScanMessage(pats, comp, text, 1) ELSE NoHit
    IN  IF tok.raised THEN [raised |-> TRUE, hit |-> NoHit]
        ELSE IF hit1.idx # 0 THEN [raised |-> FALSE, hit |-> hit1]
        ELSE IF hit2.idx # 0 THEN [raised |-> FALSE, hit |-> hit2]
        ELSE IF hit3.idx # 0 THEN [raised |-> FALSE, hit |-> hit3]
        ELSE [raised |-> FALSE, hit |-> NoHit]

\* Dispatcher.match(update), run to completion
match(pats, comp, hs, e, update) ==
    LET f == FindHit(pats, comp, update)
    IN  IF f.raised
        THEN [res |-> Raised(0, "IndexError", ""), handler |-> hs, loaded |-> {}]
        ELSE IF f.hit.idx # 0 THEN Select(pats, hs, e, f.hit)
        ELSE [res |-> Absent, handler |-> hs, loaded |-> {}]

---------------------------------------------------------------------------
(* The dispatcher as a state machine: a pattern list is handed to          *)
(* Dispatcher(...), then match is called with one update after another.    *)

\* No outcome: the call record before any call.
NoOutcome == [kind |-> "none", idx |-> 0, handler |-> NoObj, m |-> NoMatch,
              exc |-> "", msg |-> ""]

\* res is the outcome of the last call, prev the outcome of the call before it
\* when that call was made with the same update (NoOutcome otherwise).
NoCall == [state |-> "idle", update |-> [text |-> None, data |-> None],
           res |-> NoOutcome, loaded |-> {}, prev |-> NoOutcome]

\* No worker thread is running, no flatten call was made.
LoadIdle ==
    /\ threads = <<>> /\ nImport = <<>> /\ nWrite = <<>> /\ lastFail = <<>>

\* Router(): empty registries.
EmptyRouter == [commands |-> <<>>, callbacks |-> <<>>, messages |-> <<>>]
RouterIdle == router = EmptyRouter /\ regs = <<>>

\* No patterns(...) call was made: n counts the calls made so far.
NoPatternsCall == [n |-> 0, mod |-> <<>>, namespace |-> None, out |-> <<>>]

\* fl.calls counts the flatten calls made so far.
FlattenIdle ==
    /\ tables = <<>> /\ declared = <<>> /\ stack = <<>> /\ seen = {}
    /\ result = <<>> /\ resolved = <<>>
    /\ fl = [pc |-> "idle", root |-> <<>>, exc |-> "", calls |-> 0]
    /\ pcall = NoPatternsCall

Init ==
    /\ LoadIdle /\ FlattenIdle /\ RouterIdle
    /\ patterns \in PatternLists
    /\ compiled = [i \in 1..Len(patterns) |-> NotCompiled]
    /\ handler = [i \in 1..Len(patterns) |-> NoObj]
    /\ phase = "new"
    /\ call = NoCall
    /\ env = StaticEnv

\* Dispatcher.__init__(patterns)
ConstructEager ==
    /\ phase = "new"
    /\ LET r == CompileAll(patterns, compiled, 1)
           hs == [i \in 1..Len(patterns) |-> load_handler(patterns[i], handler[i], env)]
       IN /\ compiled' = r.compiled
          /\ handler' = [i \in 1..Len(patterns) |-> hs[i].slot]
          /\ phase' = IF r.raised \/ \E i \in 1..Len(patterns) : hs[i].out.raised
                      THEN "failed" ELSE "ready"
    /\ UNCHANGED <<patterns, call, env>>
    /\ UNCHANGED <<loadVars, flatVars, routerVars>>

\* Dispatcher.__init__ with a compile that leaves an invalid regex for the
\* first match call to trip on.
ConstructDeferred ==
    /\ phase = "new"
    /\ LET r == CompileAll(patterns, compiled, 1)
       IN /\ compiled' = r.compiled
          /\ phase' = "ready"
    /\ UNCHANGED <<patterns, handler, call, env>>
    /\ UNCHANGED <<loadVars, flatVars, routerVars>>

Construct ==
    /\ phase = "new"
    /\ LET r == CompileAll(patterns, compiled, 1)
       IN /\ compiled' = r.compiled
          /\ phase' = IF r.raised THEN "failed" ELSE "ready"
    /\ UNCHANGED <<patterns, handler, call, env>>
    /\ UNCHANGED <<loadVars, flatVars, routerVars>>

\* dispatcher.match(u), from the call to its return or raise
Match(u) ==
    /\ phase = "ready"
    /\ call.state = "idle"
    /\ \E r \in {match(patterns, compiled, handler, env, u)} :
          /\ handler' = r.handler
          /\ call' = [state |-> "returned", update |-> u, res |-> r.res,
                      loaded |-> r.loaded, prev |-> NoOutcome]
    /\ UNCHANGED <<patterns, compiled, phase, env>>
    /\ UNCHANGED <<loadVars, flatVars, routerVars>>

\* dispatcher.match(u) once more, with the update of the call before
Rematch ==
    /\ phase = "ready"
    /\ call.state = "returned"
    /\ \E r \in {match(patterns, compiled, handler, env, call.update)} :
          /\ handler' = r.handler
          /\ call' = [call EXCEPT !.res = r.res, !.loaded = r.loaded,
                                  !.prev = call.res]
    /\ UNCHANGED <<patterns, compiled, phase, env>>
    /\ UNCHANGED <<loadVars, flatVars, routerVars>>

\* The caller has consumed the outcome; the dispatcher waits for the next update.
NextUpdate ==
    /\ call.state = "returned"
    /\ call' = NoCall
    /\ UNCHANGED <<patterns, compiled, handler, phase, env>>
    /\ UNCHANGED <<loadVars, flatVars, routerVars>>

Next ==
    \/ Construct
    \/ \E u \in Updates : Match(u)
    \/ Rematch
    \/ NextUpdate

Spec == Init /\ [][Next]_vars

---------------------------------------------------------------------------
(* Properties of Dispatcher (specification Spec).                          *)

\* The features of the update of the last match call, and which patterns
\* they make eligible.
CallTok == CommandToken(call.update.text)
HasCommandToken == ~CallTok.raised /\ CallTok.cmd # None
Idx == 1..Len(patterns)
IsCommandFor(i) ==
    HasCommandToken /\ patterns[i].kind = "command" /\ patterns[i].pattern = CallTok.cmd
CallbackMatches(i) ==
    /\ patterns[i].kind = "callback" /\ Truthy(call.update.data)
    /\ MatchEnd(patterns[i].pattern, call.update.data, 1) # 0
MessageMatches(i) ==
    /\ patterns[i].kind = "message" /\ Truthy(call.update.text)
    /\ \E pos \in 1..(Len(call.update.text) + 1) :
          MatchEnd(patterns[i].pattern, call.update.text, pos) # 0
Eligible(i) == IsCommandFor(i) \/ CallbackMatches(i) \/ MessageMatches(i)
Unresolvable(i) == load_handler(patterns[i], NoObj, env).out.raised
Returned == call.state = "returned"

C2_AbsentWhenNothingMatches ==
    (Returned /\ \A i \in Idx : ~Eligible(i)) => call.res.kind = "absent"

\* C3: the pattern match selects is the lowest-index eligible pattern of its
\* kind, and a repeated call with the same update selects the same pattern.
C3_FirstMatchWins ==
    Returned =>
        /\ call.res.idx # 0 =>
              /\ Eligible(call.res.idx)
              /\ \A j \in 1..(call.res.idx - 1) :
                    ~(patterns[j].kind = patterns[call.res.idx].kind /\ Eligible(j))
        /\ call.prev.kind # "none" => call.prev.idx = call.res.idx

\* C3 witness: a repeated call returned a pattern although a later pattern of
\* the same kind is eligible too.
C3_Witness ==
    /\ Returned /\ call.res.kind = "match" /\ call.prev.kind = "match"
    /\ \E j \in Idx :
          /\ j > call.res.idx
          /\ patterns[j].kind = patterns[call.res.idx].kind
          /\ Eligible(j)

\* C6: constructing the Dispatcher resolves no handler and fails only for an
\* invalid regex, never for an unresolvable handler; match raises
\* HandlerLoaderError only when the pattern it selected is unresolvable, and a
\* call that selects a resolvable pattern returns it.
C6_StateInv ==
    Returned =>
        /\ (call.res.kind = "raise" /\ call.res.exc = "HandlerLoaderError")
              => (call.res.idx \in Idx /\ Eligible(call.res.idx)
                  /\ Unresolvable(call.res.idx))
        /\ (call.res.idx \in Idx /\ ~Unresolvable(call.res.idx))
              => call.res.kind = "match"

C6_ConstructStep ==
    phase = "new" =>
        /\ handler' = handler
        /\ phase' = "failed" =>
              \E i \in Idx : patterns[i].kind \in RegexKinds /\ ~ReValid(patterns[i].pattern)

C6_LazyResolution == [](C6_StateInv) /\ [][C6_ConstructStep]_vars

\* C6 witness: a constructed Dispatcher holding an unresolvable pattern has
\* returned another pattern from match.
C6_Witness ==
    /\ phase = "ready" /\ Returned /\ call.res.kind = "match"
    /\ \E i \in Idx : i # call.res.idx /\ Unresolvable(i)

\* C8: a match call calls load_handler on the selected pattern only (on none
\* when it returns absent), and the only handler slot a step writes is the
\* slot of the pattern the call returns.
C8_StateInv ==
    Returned =>
        /\ call.loaded \subseteq {call.res.idx}
        /\ call.res.kind = "absent" => call.loaded = {}
        /\ call.res.kind = "match" => call.loaded = {call.res.idx}

C8_SlotStep ==
    \A i \in Idx :
        handler'[i] # handler[i] =>
            /\ call'.state = "returned" /\ call'.res.kind = "match"
            /\ call'.res.idx = i

C8_OnlyWinnerResolved == [](C8_StateInv) /\ [][C8_SlotStep]_vars

\* C8 witness: match returned a pattern while a resolvable pattern scanned
\* before it still has an empty handler slot.
C8_Witness ==
    /\ Returned /\ call.res.kind = "match"
    /\ \E j \in Idx : j < call.res.idx /\ ~Unresolvable(j) /\ handler[j] = NoObj

\* The error kinds of the bootstrap layer (core/exceptions.py).
BootstrapErrors == {"ConfigurationError", "AppRegistryError"}

\* What importing the module of pattern i's handler path gives.
HandlerImport(i) ==
    import_module(env, rpartition(patterns[i].handler_path, ".").head)

\* C11 (as claimed): when importing the module of the selected pattern's
\* handler raises a bootstrap-layer error (ConfigurationError or
\* AppRegistryError), match raises that same error kind, not another one.
C11_BootstrapErrorsUnmodified ==
    \A i \in Idx :
        (/\ Returned /\ i \in call.loaded /\ handler[i] = NoObj
         /\ HandlerImport(i).raised
         /\ HandlerImport(i).exc \in BootstrapErrors)
        => /\ call.res.kind = "raise"
           /\ call.res.exc = HandlerImport(i).exc

\* Pattern i is a callback or message pattern.
IsRegexPattern(i) == patterns[i].kind \in RegexKinds

\* Construction failed exactly when some regex source is invalid; after a
\* successful construction every callback/message pattern holds the matcher
\* of its own source, every command pattern holds none, and no match call
\* has tripped on a `compiled earlier` assertion.
C12_StateInv ==
    /\ phase # "new" =>
          (phase = "failed" <=>
              \E i \in Idx : IsRegexPattern(i) /\ ~ReValid(patterns[i].pattern))
    /\ phase = "ready" =>
          /\ \A i \in Idx :
                compiled[i] = IF IsRegexPattern(i)
                              THEN re_compile(patterns[i].pattern)
                              ELSE NotCompiled
          /\ \A i \in Idx : IsRegexPattern(i) => compiled[i].ok
          /\ ~(call.res.kind = "raise" /\ call.res.exc = "AssertionError")

\* Once the dispatcher is constructed no step touches a matcher.
C12_MatcherStep == phase = "ready" => (phase' = "ready" /\ compiled' = compiled)

\* C12: Dispatcher construction compiles every callback/message pattern and
\* fails if a regex source is invalid; after a successful construction and
\* any sequence of match calls every callback/message pattern holds a
\* compiled matcher, command patterns hold none, the assertions of match
\* never fail, and a matcher is never recompiled or replaced.
C12_EagerCompilation == [](C12_StateInv) /\ [][C12_MatcherStep]_vars

\* C12 witness: a dispatcher over a command pattern and a callback or message
\* pattern has answered a second match call with a regex match.
C12_Witness ==
    /\ phase = "ready" /\ Returned
    /\ call.prev.kind # "none"
    /\ call.res.kind = "match" /\ call.res.m.found
    /\ \E i \in Idx : patterns[i].kind = "command"

\* The update of the last call carries no command token (and extracting it
\* did not raise), so the command tier is not consulted.
NoCommandToken == ~CallTok.raised /\ CallTok.cmd = None

\* The least index of the set S of pattern indices, 0 when S is empty.
FirstIdx(S) ==
    IF S = {} THEN 0 ELSE CHOOSE i \in S : \A j \in S : i <= j

\* C13: a callback pattern is selected for callback data d exactly when its
\* regex matches a prefix of d (a match starting at offset 0, whether or not
\* it consumes all of d); a message pattern is selected for text t exactly
\* when its regex matches t at some offset; the MatchResult of a callback or
\* message pattern carries that match, the MatchResult of a command pattern
\* carries none.
C13_MatchSemantics ==
    Returned =>
        /\ (NoCommandToken /\ Truthy(call.update.data)
            /\ \E i \in Idx : CallbackMatches(i))
           => call.res.idx = FirstIdx({i \in Idx : CallbackMatches(i)})
        /\ (NoCommandToken /\ Truthy(call.update.text)
            /\ ~(\E i \in Idx : CallbackMatches(i)))
           => call.res.idx = FirstIdx({i \in Idx : MessageMatches(i)})
        /\ (call.res.idx \in Idx /\ patterns[call.res.idx].kind = "callback")
           => CallbackMatches(call.res.idx)
        /\ (call.res.idx \in Idx /\ patterns[call.res.idx].kind = "message")
           => MessageMatches(call.res.idx)
        /\ call.res.kind = "match" =>
              LET p == patterns[call.res.idx]
                  m == call.res.m
              IN  /\ p.kind = "command" => m = NoMatch
                  /\ p.kind = "callback" =>
                        /\ m.found /\ m.start = 0
                        /\ m.end + 1 = MatchEnd(p.pattern, call.update.data, 1)
                  /\ p.kind = "message" =>
                        /\ m.found
                        /\ m.end + 1 = MatchEnd(p.pattern, call.update.text, m.start + 1)

\* C13 witness: a callback pattern whose regex occurs in the callback data
\* only at a later offset was passed over, and a message pattern was returned
\* with a match that starts inside the text.
C13_Witness ==
    /\ Returned /\ call.res.kind = "match"
    /\ patterns[call.res.idx].kind = "message"
    /\ call.res.m.start > 0
    /\ \E j \in Idx :
          /\ patterns[j].kind = "callback" /\ Truthy(call.update.data)
          /\ ~CallbackMatches(j)
          /\ \E pos \in 2..Len(call.update.data) :
                MatchEnd(patterns[j].pattern, call.update.data, pos) # 0

\* The text up to (not including) its first whitespace character.
RECURSIVE UpToSpace(_)
UpToSpace(s) ==
    IF s = <<>> \/ IsSpace(Head(s)) THEN <<>> ELSE <<Head(s)>> \o UpToSpace(Tail(s))

\* C16 (as claimed): for a text that begins with "/" (and from which match
\* gets a token at all) the command token is the text without its one
\* leading slash, up to the first whitespace character; a text that does not
\* begin with "/" has no command token.
C16_CommandToken ==
    Returned =>
        LET text == call.update.text
        IN IF Truthy(text) /\ startswith(text, "/")
           THEN CallTok.raised \/ CallTok.cmd = UpToSpace(Tail(text))
           ELSE ~CallTok.raised /\ CallTok.cmd = None

\* The pattern match has selected (returned, or failed to load), if any.
Selected == call.res.idx \in Idx

---------------------------------------------------------------------------
(* Concurrent match calls (specification SpecLoad).  The host runs match   *)
(* on several worker threads over one Dispatcher.  The scans of match read *)
(* only fields nothing writes after construction, so a call's scan is one  *)
(* step; load_handler, which reads and writes the shared _handler slot and *)
(* calls into the module system, runs statement by statement.  Between the *)
(* steps the module system may change: a module gets installed, a module   *)
(* attribute gets defined.                                                 *)

Threads == 1..NThreads

LoadHandlerPaths ==
    {<<"m", ".", "h">>, <<"m", ".", "v">>, <<"m", ".", "x">>, <<"n", ".", "h">>,
     <<"h">>, <<"m", ".">>}

RECURSIVE Rep(_, _)
Rep(c, n) == IF n = 0 THEN <<>> ELSE <<c>> \o Rep(c, n - 1)

\* The lists [command("a", hp1), command("aa", hp2), ...]
LoadPatternLists ==
    UNION {{[i \in 1..n |-> [kind |-> "command", pattern |-> Rep("a", i),
                             handler_path |-> f[i]]] :
               f \in [1..n -> LoadHandlerPaths]} : n \in 1..MaxPatterns}

\* "/a", "/aa", ... and an update that carries nothing
LoadUpdates ==
    {[text |-> <<"/">> \o Rep("a", i), data |-> None] : i \in 1..MaxPatterns}
    \cup {[text |-> None, data |-> None]}

\* Module m as in StaticEnv; module n defines h but is not installed yet.
LoadEnv ==
    (<<"m">> :> StaticEnv[<<"m">>])
    @@ (<<"n">> :> [imp |-> "ModuleNotFoundError",
                    attrs |-> [a \in AttrNames |-> IF a = <<"h">> THEN H ELSE NoObj]])

NoFail == [msg |-> "", env |-> <<>>]

IdleThread == [pc |-> "idle", idx |-> 0, saw |-> NoFail,
               module |-> <<>>, obj |-> NoObj, res |-> NoOutcome, calls |-> 0]

InitLoad ==
    /\ FlattenIdle /\ RouterIdle
    /\ patterns \in LoadPatternLists
    /\ compiled = CompileAll(patterns, [i \in 1..Len(patterns) |-> NotCompiled], 1).compiled
    /\ handler = [i \in 1..Len(patterns) |-> NoObj]
    /\ phase = "ready"
    /\ call = NoCall
    /\ env = LoadEnv
    /\ threads = [t \in Threads |-> IdleThread]
    /\ nImport = [i \in 1..Len(patterns) |-> 0]
    /\ nWrite = [i \in 1..Len(patterns) |-> 0]
    /\ lastFail = [i \in 1..Len(patterns) |-> NoFail]

\* The thread's call ends: it returns res or raises it.  A HandlerLoaderError
\* is remembered as the pattern's last failure.
Done(t, res) ==
    /\ threads' = [threads EXCEPT ![t].pc = "done", ![t].res = res]
    /\ lastFail' = IF res.kind = "raise" /\ res.exc = "HandlerLoaderError"
                   THEN [lastFail EXCEPT ![res.idx] = [msg |-> res.msg, env |-> env]]
                   ELSE lastFail

\* dispatcher.py:36-48: thread t calls match(u); the scans run and stop at a
\* pattern, on which load_handler is entered.
MatchBegin(t, u) ==
    /\ threads[t].pc = "idle"
    /\ threads[t].calls < MaxCalls
    /\ LET f == FindHit(patterns, compiled, u)
       IN IF f.raised
          THEN Done(t, Raised(0, "IndexError", ""))
          ELSE IF f.hit.idx = 0
          THEN Done(t, Absent)
          ELSE /\ threads' = [threads EXCEPT ![t].pc = "check", ![t].idx = f.hit.idx,
                                             ![t].saw = lastFail[f.hit.idx]]
               /\ UNCHANGED lastFail
    /\ UNCHANGED <<dispVars, nImport, nWrite, flatVars, routerVars>>

\* api.py:42-48: if self._handler is not None: return self._handler; then
\* the rpartition of handler_path and its check.
CheckCache(t) ==
    /\ threads[t].pc = "check"
    /\ LET i == threads[t].idx
           parts == rpartition(patterns[i].handler_path, ".")
       IN IF handler[i] # NoObj
          THEN /\ threads' = [threads EXCEPT ![t].pc = "done",
                                 ![t].res = MatchResult(i, handler[i], NoMatch)]
               /\ UNCHANGED lastFail
          ELSE IF parts.head = <<>> \/ parts.tail = <<>>
          THEN Done(t, Raised(i, "HandlerLoaderError", "Invalid handler path"))
          ELSE /\ threads' = [threads EXCEPT ![t].pc = "import"]
               /\ UNCHANGED lastFail
    /\ UNCHANGED <<dispVars, nImport, nWrite, flatVars, routerVars>>

\* api.py:49-55: module = import_module(module_path), any Exception wrapped
ImportStep(t) ==
    /\ threads[t].pc = "import"
    /\ LET i == threads[t].idx
           imp == import_module(env, rpartition(patterns[i].handler_path, ".").head)
       IN /\ nImport' = [nImport EXCEPT ![i] = @ + 1]
          /\ IF imp.raised
             THEN Done(t, Raised(i, "HandlerLoaderError", "Cannot import module"))
             ELSE /\ threads' = [threads EXCEPT ![t].pc = "getattr",
                                                ![t].module = imp.module]
                  /\ UNCHANGED lastFail
    /\ UNCHANGED <<dispVars, nWrite, flatVars, routerVars>>

\* api.py:56-64: handler_obj = getattr(module, attr, None) and its two checks,
\* with the assignment of line 65 moved before the callable() check.
GetAttrStoreEarly(t) ==
    /\ threads[t].pc = "getattr"
    /\ LET i == threads[t].idx
           handler_obj == getattr(env, threads[t].module,
                                  rpartition(patterns[i].handler_path, ".").tail)
       IN IF handler_obj = NoObj
          THEN /\ Done(t, Raised(i, "HandlerLoaderError", "Attribute not found"))
               /\ UNCHANGED <<handler, nWrite>>
          ELSE IF ~handler_obj.callable
          THEN /\ Done(t, Raised(i, "HandlerLoaderError", "Handler is not callable"))
               /\ handler' = [handler EXCEPT ![i] = handler_obj]
               /\ nWrite' = [nWrite EXCEPT ![i] = @ + 1]
          ELSE /\ threads' = [threads EXCEPT ![t].pc = "store", ![t].obj = handler_obj]
               /\ UNCHANGED <<lastFail, handler, nWrite>>
    /\ UNCHANGED <<patterns, compiled, phase, call, env, nImport, flatVars, routerVars>>

\* api.py:56-64: handler_obj = getattr(module, attr, None) and its two checks
GetAttrStep(t) ==
    /\ threads[t].pc = "getattr"
    /\ LET i == threads[t].idx
           handler_obj == getattr(env, threads[t].module,
                                  rpartition(patterns[i].handler_path, ".").tail)
       IN IF handler_obj = NoObj
          THEN Done(t, Raised(i, "HandlerLoaderError", "Attribute not found"))
          ELSE IF ~handler_obj.callable
          THEN Done(t, Raised(i, "HandlerLoaderError", "Handler is not callable"))
          ELSE /\ threads' = [threads EXCEPT ![t].pc = "store", ![t].obj = handler_obj]
               /\ UNCHANGED lastFail
    /\ UNCHANGED <<patterns, compiled, phase, call, env, nImport, flatVars, routerVars>>
    /\ UNCHANGED <<handler, nWrite>>

\* api.py:65: self._handler = cast(Handler, handler_obj)
StoreStep(t) ==
    /\ threads[t].pc = "store"
    /\ LET i == threads[t].idx
       IN /\ handler' = [handler EXCEPT ![i] = threads[t].obj]
          /\ nWrite' = [nWrite EXCEPT ![i] = @ + 1]
    /\ threads' = [threads EXCEPT ![t].pc = "return"]
    /\ UNCHANGED <<patterns, compiled, phase, call, env, nImport, lastFail, flatVars, routerVars>>

\* api.py:66 and dispatcher.py:49: return self._handler, wrapped in a MatchResult
ReturnStep(t) ==
    /\ threads[t].pc = "return"
    /\ threads' = [threads EXCEPT ![t].pc = "done",
                      ![t].res = MatchResult(threads[t].idx, handler[threads[t].idx], NoMatch)]
    /\ UNCHANGED <<dispVars, nImport, nWrite, lastFail, flatVars, routerVars>>

\* The worker is free for its next update.
Finish(t) ==
    /\ threads[t].pc = "done"
    /\ threads' = [threads EXCEPT ![t] = [IdleThread EXCEPT !.calls = threads[t].calls + 1]]
    /\ UNCHANGED <<dispVars, nImport, nWrite, lastFail, flatVars, routerVars>>

\* The module system changes: attribute x of module m gets defined.
DefineAttr ==
    /\ env[<<"m">>].attrs[<<"x">>] = NoObj
    /\ env' = [env EXCEPT ![<<"m">>].attrs[<<"x">>] = G]
    /\ UNCHANGED <<patterns, compiled, handler, phase, call, loadVars, flatVars, routerVars>>

\* The module system changes: module n gets installed.
InstallModule ==
    /\ env[<<"n">>].imp # "ok"
    /\ env' = [env EXCEPT ![<<"n">>].imp = "ok"]
    /\ UNCHANGED <<patterns, compiled, handler, phase, call, loadVars, flatVars, routerVars>>

NextLoad ==
    \/ \E t \in Threads, u \in LoadUpdates : MatchBegin(t, u)
    \/ \E t \in Threads : CheckCache(t)
    \/ \E t \in Threads : ImportStep(t)
    \/ \E t \in Threads : GetAttrStep(t)
    \/ \E t \in Threads : StoreStep(t)
    \/ \E t \in Threads : ReturnStep(t)
    \/ \E t \in Threads : Finish(t)
    \/ DefineAttr
    \/ InstallModule

SpecLoad == InitLoad /\ [][NextLoad]_vars

---------------------------------------------------------------------------
(* Properties of load_handler under concurrent match calls (SpecLoad).     *)

\* C9 (as claimed): over any interleaving of match calls, import_module runs
\* at most once for a pattern's handler and the pattern's _handler slot is
\* assigned at most once.
C9_ResolvedAtMostOnce ==
    \A i \in 1..Len(patterns) : nImport[i] <= 1 /\ nWrite[i] <= 1

\* A call of thread t that began after a HandlerLoaderError of its pattern has
\* ended with that same HandlerLoaderError.
SameFailureAgain(t) ==
    /\ threads[t].res.kind = "raise"
    /\ threads[t].res.exc = "HandlerLoaderError"
    /\ threads[t].res.msg = threads[t].saw.msg

---------------------------------------------------------------------------
(* flatten (specification SpecFlatten).  Modules A and B each hold a       *)
(* urlpatterns list of BasePattern and Include objects; flatten is called  *)
(* on the list of one of them.  An object is named by its place            *)
(* [mod, i] in the list that holds it; tables gives its current fields.    *)
(* Of a BasePattern only name and namespace are kept here: flatten reads   *)
(* and writes nothing else.                                                *)

ModuleNames == {<<"A">>, <<"B">>}

\* import_module for include targets: A and B are importable, Z is not.
FlattenEnv ==
    (<<"A">> :> [imp |-> "ok", attrs |-> <<>>])
    @@ (<<"B">> :> [imp |-> "ok", attrs |-> <<>>])
    @@ (<<"Z">> :> [imp |-> "ModuleNotFoundError", attrs |-> <<>>])

PatternEntry(name, namespace) ==
    [type |-> "pattern", name |-> name, namespace |-> namespace, target |-> <<>>]
IncludeEntry(target, namespace) ==
    [type |-> "include", name |-> None, namespace |-> namespace, target |-> target]

\* Targets that name a list, twice the same list under two spellings, and
\* targets that cannot be resolved (no attribute x in B, no module Z).
GoodTargets == {<<"A">>, <<"B">>, <<"B", ":", "urlpatterns">>}
BadTargets == {<<"B", ":", "x">>, <<"Z">>}

EntryDecls ==
    {PatternEntry(None, None), PatternEntry(<<"n">>, None), PatternEntry(<<"n">>, <<"o">>)}
    \cup {IncludeEntry(t, n) : t \in GoodTargets, n \in {None, <<"a">>, <<"b">>}}
    \cup {IncludeEntry(t, None) : t \in BadTargets}

Tables == [ModuleNames -> ListsUpTo(EntryDecls, MaxEntries)]

\* BasePattern.fq_name
fq_name(p) ==
    IF p.name = None THEN None
    ELSE IF Truthy(p.namespace) THEN p.namespace \o <<":">> \o p.name
    ELSE p.name

\* str.split(sep): the parts between the occurrences of sep, empty ones kept.
RECURSIVE SplitOnFrom(_, _, _, _)
SplitOnFrom(s, sep, cur, acc) ==
    IF s = <<>> THEN Append(acc, cur)
    ELSE IF Head(s) = sep
         THEN SplitOnFrom(Tail(s), sep, <<>>, Append(acc, cur))
         ELSE SplitOnFrom(Tail(s), sep, Append(cur, Head(s)), acc)

SplitOn(s, sep) == SplitOnFrom(s, sep, <<>>, <<>>)

Contains(s, c) == \E i \in 1..Len(s) : s[i] = c

\* module_ref, attr of an Include target (api.py:171-178)
ModuleRef(target) == SplitOn(target, ":")[1]
AttrOf(target) ==
    IF Contains(target, ":") THEN SplitOn(target, ":")[2] ELSE <<"urlpatterns">>

\* getattr(module, attr, None) for a module that holds a urlpatterns list:
\* the list is found under "urlpatterns" only.
HasTable(tbl, module, attr) == module \in DOMAIN tbl /\ attr = <<"urlpatterns">>

Ref(m, i) == [mod |-> m, i |-> i]
RefsOf(tbl, m) == [k \in 1..Len(tbl[m]) |-> Ref(m, k)]
Entry(tbl, r) == tbl[r.mod][r.i]

\* The stamping loop without the `p.namespace is None` test: the Include's
\* namespace overwrites the one an entry has.
StampOverwrite(tbl, m, namespace) ==
    [tbl EXCEPT ![m] =
        [k \in 1..Len(tbl[m]) |->
            IF Truthy(namespace)
            THEN [tbl[m][k] EXCEPT !.namespace = namespace]
            ELSE tbl[m][k]]]

\* api.py:186-195: for p in target_patterns: if entry.namespace and
\* p.namespace is None: p.namespace = entry.namespace (both branches alike)
Stamp(tbl, m, namespace) ==
    [tbl EXCEPT ![m] =
        [k \in 1..Len(tbl[m]) |->
            IF Truthy(namespace) /\ tbl[m][k].namespace = None
            THEN [tbl[m][k] EXCEPT !.namespace = namespace]
            ELSE tbl[m][k]]]

\* A frame of the recursion: the list it iterates, the index of the entry
\* it is at, its flat list so far.  path is where the frame's list hangs in
\* the include tree (the indices of the Includes that led to it); each
\* element of flat carries the path of the place it was taken from.
Frame(entries, path) == [entries |-> entries, i |-> 1, flat |-> <<>>, path |-> path]

Top == stack[Len(stack)]
TopEntry == Entry(tables, Top.entries[Top.i])
Running == fl.pc = "running" /\ stack # <<>>
AtEntry == Running /\ Top.i <= Len(Top.entries)

InitFlatten ==
    /\ LoadIdle
    /\ patterns = <<>> /\ compiled = <<>> /\ handler = <<>>
    /\ phase = "new" /\ call = NoCall
    /\ env = FlattenEnv
    /\ tables \in Tables
    /\ declared = tables
    /\ fl = [pc |-> "idle", root |-> <<>>, exc |-> "", calls |-> 0]
    /\ stack = <<>> /\ seen = {} /\ result = <<>> /\ resolved = <<>>
    /\ pcall = NoPatternsCall
    /\ RouterIdle

\* flatten(m.urlpatterns): the outermost call, _seen = set()
FlattenCall(m) ==
    /\ fl.pc = "idle"
    /\ fl' = [pc |-> "running", root |-> m, exc |-> "", calls |-> fl.calls + 1]
    /\ stack' = <<Frame(RefsOf(tables, m), <<>>)>>
    /\ seen' = {}
    /\ declared' = tables
    /\ UNCHANGED <<tables, result, resolved, pcall, dispVars, loadVars, routerVars>>

\* api.py:165-167: a BasePattern entry is appended to flat
StepPattern ==
    /\ AtEntry
    /\ TopEntry.type = "pattern"
    /\ stack' = [stack EXCEPT ![Len(stack)].i = @ + 1,
                    ![Len(stack)].flat =
                        Append(@, [ref |-> Top.entries[Top.i],
                                   path |-> Append(Top.path, Top.i)])]
    /\ UNCHANGED <<tables, declared, fl, seen, result, resolved, pcall, dispVars, loadVars, routerVars>>

\* api.py:168-169: an Include whose target is in _seen is skipped
StepSkip ==
    /\ AtEntry
    /\ TopEntry.type = "include"
    /\ TopEntry.target \in seen
    /\ stack' = [stack EXCEPT ![Len(stack)].i = @ + 1]
    /\ UNCHANGED <<tables, declared, fl, seen, result, resolved, pcall, dispVars, loadVars, routerVars>>

\* api.py:170-196: an Include whose target is new is marked seen, resolved,
\* its namespace stamped on the entries of the list it names, and flatten
\* is entered on that list; import_module or a missing attribute may raise.
StepInclude ==
    /\ AtEntry
    /\ TopEntry.type = "include"
    /\ TopEntry.target \notin seen
    /\ seen' = seen \cup {TopEntry.target}
    /\ resolved' = Append(resolved, [target |-> TopEntry.target,
                                     path |-> Append(Top.path, Top.i)])
    /\ LET entry == TopEntry
           module_ref == ModuleRef(entry.target)
           attr == AttrOf(entry.target)
           imp == import_module(env, module_ref)
       IN IF imp.raised
          THEN /\ fl' = [fl EXCEPT !.pc = "raised", !.exc = imp.exc]
               /\ stack' = <<>>
               /\ UNCHANGED tables
          ELSE IF ~HasTable(tables, imp.module, attr)
          THEN /\ fl' = [fl EXCEPT !.pc = "raised", !.exc = "RuntimeError"]
               /\ stack' = <<>>
               /\ UNCHANGED tables
          ELSE /\ tables' = Stamp(tables, imp.module, entry.namespace)
               /\ stack' = Append(stack, Frame(RefsOf(tables, imp.module),
                                               Append(Top.path, Top.i)))
               /\ UNCHANGED fl
    /\ UNCHANGED <<declared, result, pcall, dispVars, loadVars, routerVars>>

\* api.py:196-197 with the nested result put in front of flat.
StepReturnPrepend ==
    /\ Running
    /\ Top.i > Len(Top.entries)
    /\ IF Len(stack) = 1
       THEN /\ result' = Top.flat
            /\ fl' = [fl EXCEPT !.pc = "done"]
            /\ stack' = <<>>
       ELSE /\ stack' = [SubSeq(stack, 1, Len(stack) - 1)
                            EXCEPT ![Len(stack) - 1].i = @ + 1,
                                   ![Len(stack) - 1].flat = Top.flat \o @]
            /\ UNCHANGED <<result, fl>>
    /\ UNCHANGED <<tables, declared, seen, resolved, pcall, dispVars, loadVars, routerVars>>

\* api.py:196-197: the loop is over: return flat; the caller extends its own
\* flat with it and goes on with its next entry.
StepReturn ==
    /\ Running
    /\ Top.i > Len(Top.entries)
    /\ IF Len(stack) = 1
       THEN /\ result' = Top.flat
            /\ fl' = [fl EXCEPT !.pc = "done"]
            /\ stack' = <<>>
       ELSE /\ stack' = [SubSeq(stack, 1, Len(stack) - 1)
                            EXCEPT ![Len(stack) - 1].i = @ + 1,
                                   ![Len(stack) - 1].flat = @ \o Top.flat]
            /\ UNCHANGED <<result, fl>>
    /\ UNCHANGED <<tables, declared, seen, resolved, pcall, dispVars, loadVars, routerVars>>

NextFlatten ==
    \/ \E m \in ModuleNames : FlattenCall(m)
    \/ StepPattern
    \/ StepSkip
    \/ StepInclude
    \/ StepReturn

SpecFlatten == InitFlatten /\ [][NextFlatten]_vars

\* flatten is one sequential computation: once called, it keeps running.
SpecFlattenFair == SpecFlatten /\ WF_vars(NextFlatten)

---------------------------------------------------------------------------
(* Properties of flatten (SpecFlatten).                                    *)

FlattenDone == fl.pc = "done"
Items == 1..Len(result)

\* How many times object r stands in the list flatten returned.
Count(r) == Cardinality({k \in Items : result[k].ref = r})

\* List m, as declared, holds an Include whose target names module m2.
IncludesModule(m, m2) ==
    \E k \in 1..Len(declared[m]) :
        declared[m][k].type = "include" /\ ModuleRef(declared[m][k].target) = m2

\* A includes B and B includes A, each by the module's plain name.
PlainTargets ==
    \A m \in ModuleNames : \A k \in 1..Len(declared[m]) :
        declared[m][k].type = "include" => declared[m][k].target \in ModuleNames
HasCycle ==
    /\ IncludesModule(<<"A">>, <<"B">>) /\ IncludesModule(<<"B">>, <<"A">>)
    /\ PlainTargets

\* C4 (as claimed): on an include graph where A includes B and B includes A,
\* the list flatten returns holds every direct pattern of A and of B exactly
\* once, whichever of the two lists flatten was called on.
C4_EachPatternOnce ==
    (FlattenDone /\ HasCycle) =>
        \A m \in ModuleNames : \A k \in 1..Len(declared[m]) :
            declared[m][k].type = "pattern" => Count(Ref(m, k)) = 1

\* C4, the termination part: every flatten call returns or raises.
C4_Terminates == (fl.pc = "running") ~> (fl.pc \in {"done", "raised"})

\* The namespace of the innermost Include, among those that path runs
\* through from list m on, that was declared with a namespace.
RECURSIVE InheritedNs(_, _, _, _)
InheritedNs(m, path, j, acc) ==
    IF j >= Len(path) THEN acc
    ELSE LET inc == declared[m][path[j]]
         IN InheritedNs(ModuleRef(inc.target), path, j + 1,
                        IF inc.namespace # None THEN inc.namespace ELSE acc)

ExpectedNs(item) ==
    IF Entry(declared, item.ref).namespace # None
    THEN Entry(declared, item.ref).namespace
    ELSE InheritedNs(fl.root, item.path, 1, None)

\* C5 (as claimed): every pattern of the returned list that was reached
\* through Includes has its declared namespace if it declared one, else the
\* namespace of the innermost namespaced Include on its expansion chain,
\* else none; its fq_name is formed from that namespace.
C5_NamespacePropagation ==
    FlattenDone =>
        \A k \in Items :
            Len(result[k].path) >= 2 =>
                LET p == Entry(tables, result[k].ref)
                    ns == ExpectedNs(result[k])
                IN /\ p.namespace = ns
                   /\ fq_name(p) = IF p.name = None THEN None
                                   ELSE IF ns # None THEN ns \o <<":">> \o p.name
                                   ELSE p.name

\* Path p comes before path q in the depth-first, in-order walk.
LexLess(p, q) ==
    \/ Len(p) < Len(q) /\ SubSeq(q, 1, Len(p)) = p
    \/ \E i \in 1..Len(p) :
          /\ i <= Len(q)
          /\ SubSeq(p, 1, i - 1) = SubSeq(q, 1, i - 1)
          /\ p[i] < q[i]

\* The places of the include tree whose list this call iterated: the input
\* itself and every Include it expanded.
ExpandedPaths == {<<>>} \cup {resolved[a].path : a \in 1..Len(resolved)}
TargetAt(pre) ==
    resolved[CHOOSE a \in 1..Len(resolved) : resolved[a].path = pre].target
ListAt(pre) == IF pre = <<>> THEN fl.root ELSE ModuleRef(TargetAt(pre))

\* Every expansion happened at an Include of a list that was iterated.
ResolvedWellPlaced ==
    \A a \in 1..Len(resolved) :
        LET r == resolved[a]
            pre == SubSeq(r.path, 1, Len(r.path) - 1)
            k == r.path[Len(r.path)]
        IN /\ pre \in ExpandedPaths
           /\ k <= Len(declared[ListAt(pre)])
           /\ declared[ListAt(pre)][k].type = "include"
           /\ declared[ListAt(pre)][k].target = r.target

\* The direct patterns of the iterated lists, each with its place.
ExpectedItems ==
    UNION {{[ref |-> Ref(ListAt(pre), k), path |-> Append(pre, k)] :
                k \in {j \in 1..Len(declared[ListAt(pre)]) :
                          declared[ListAt(pre)][j].type = "pattern"}} :
           pre \in ExpandedPaths}

\* C7: the list flatten returns is the depth-first, in-order expansion of
\* its input: it holds exactly the direct patterns of the input and of the
\* lists of the Includes it expanded, a direct pattern in its place among its
\* siblings and an Include's patterns in the place of the Include, in the
\* order of the included list, recursively.
C7_DepthFirstOrder ==
    FlattenDone =>
        /\ ResolvedWellPlaced
        /\ {result[k] : k \in Items} = ExpectedItems
        /\ \A j, k \in Items : j < k => LexLess(result[j].path, result[k].path)

\* A direct pattern stands before an Include whose list holds two patterns.
C7_Witness ==
    /\ FlattenDone
    /\ Len(result) >= 3
    /\ Len(result[1].path) = 1
    /\ Len(result[2].path) >= 2
    /\ Len(result[3].path) >= 2

---------------------------------------------------------------------------
(* Route tables over shared objects (specification SpecTables): the lists  *)
(* of the modules are passed through patterns(...) and flattened, more     *)
(* than once, the entries being the same objects throughout.               *)

MaxPatternsCalls == 2
MaxFlattenCalls == 2

\* The namespaces handed to patterns(): None, "" and two names.
PatternsNamespaces == {None, <<>>, <<"a">>, <<"b">>}

TableEntryDecls ==
    {PatternEntry(<<"n">>, None), PatternEntry(<<"n">>, <<"o">>)}
    \cup {IncludeEntry(<<"B">>, n) : n \in {None, <<"a">>, <<"b">>}}

SharedTables == [ModuleNames -> ListsUpTo(TableEntryDecls, MaxEntries)]

\* patterns(namespace, *entries) stamping every entry, Includes too.
patterns_call_mut(tbl, m, namespace) ==
    [tables |-> Stamp(tbl, m, namespace), out |-> RefsOf(tbl, m)]

\* The loop of patterns(namespace, *entries) over the entries of list m, from
\* entry k on: api.py:147-151.
RECURSIVE patterns_loop(_, _, _, _, _)
patterns_loop(tbl, m, namespace, k, out) ==
    IF k > Len(tbl[m]) THEN [tables |-> tbl, out |-> out]
    ELSE LET entry == tbl[m][k]
             after == IF /\ entry.type = "pattern"
                         /\ Truthy(namespace) /\ entry.namespace = None
                      THEN [entry EXCEPT !.namespace = namespace]
                      ELSE entry
         IN patterns_loop([tbl EXCEPT ![m][k] = after], m, namespace, k + 1,
                          Append(out, Ref(m, k)))

\* patterns(namespace, *entries) on the entries of list m: the entries'
\* fields afterwards and the list returned (the objects, by reference).
patterns_call(tbl, m, namespace) == patterns_loop(tbl, m, namespace, 1, <<>>)

InitTables ==
    /\ LoadIdle
    /\ patterns = <<>> /\ compiled = <<>> /\ handler = <<>>
    /\ phase = "new" /\ call = NoCall
    /\ env = FlattenEnv
    /\ tables \in SharedTables
    /\ declared = tables
    /\ fl = [pc |-> "idle", root |-> <<>>, exc |-> "", calls |-> 0]
    /\ stack = <<>> /\ seen = {} /\ result = <<>> /\ resolved = <<>>
    /\ pcall = NoPatternsCall
    /\ RouterIdle

\* patterns(namespace, *m.urlpatterns), called while no flatten call runs
PatternsCall(m, namespace) ==
    /\ fl.pc # "running"
    /\ pcall.n < MaxPatternsCalls
    /\ LET r == patterns_call(tables, m, namespace)
       IN /\ tables' = r.tables
          /\ pcall' = [n |-> pcall.n + 1, mod |-> m, namespace |-> namespace,
                       out |-> r.out]
    /\ UNCHANGED <<declared, fl, stack, seen, result, resolved, dispVars, loadVars, routerVars>>

\* flatten(m.urlpatterns) called once more, after an earlier call is over
FlattenAgain(m) ==
    /\ fl.pc \in {"done", "raised"}
    /\ fl.calls < MaxFlattenCalls
    /\ fl' = [pc |-> "running", root |-> m, exc |-> "", calls |-> fl.calls + 1]
    /\ stack' = <<Frame(RefsOf(tables, m), <<>>)>>
    /\ seen' = {}
    /\ declared' = tables
    /\ result' = <<>>
    /\ resolved' = <<>>
    /\ UNCHANGED <<tables, pcall, dispVars, loadVars, routerVars>>

NextTables ==
    \/ \E m \in ModuleNames, namespace \in PatternsNamespaces : PatternsCall(m, namespace)
    \/ \E m \in ModuleNames : FlattenCall(m)
    \/ \E m \in ModuleNames : FlattenAgain(m)
    \/ StepPattern
    \/ StepSkip
    \/ StepInclude
    \/ StepReturn

SpecTables == InitTables /\ [][NextTables]_vars

---------------------------------------------------------------------------
(* Properties of patterns and of namespaces (SpecTables).                  *)

\* The step is a patterns(...) call.
IsPatternsStep == pcall'.n = pcall.n + 1

\* C14 (as claimed): patterns(namespace, *entries) returns its entries in
\* their order and changes nothing but this: a direct pattern whose
\* namespace is unset gets the given namespace.  Patterns that have a
\* namespace, Includes, and every other list stay as they are.
C14_PatternsFrameAsClaimed ==
    [][IsPatternsStep =>
        LET m == pcall'.mod
        IN /\ pcall'.out = RefsOf(tables, m)
           /\ \A m2 \in ModuleNames \ {m} : tables'[m2] = tables[m2]
           /\ Len(tables'[m]) = Len(tables[m])
           /\ \A k \in 1..Len(tables[m]) :
                 tables'[m][k] =
                     IF tables[m][k].type = "pattern" /\ tables[m][k].namespace = None
                     THEN [tables[m][k] EXCEPT !.namespace = pcall'.namespace]
                     ELSE tables[m][k]
    ]_vars

\* C14 (amended): as above, except that only a non-empty namespace is
\* stamped: patterns("", ...) like patterns(None, ...) changes nothing.
C14_PatternsFrame ==
    [][IsPatternsStep =>
        LET m == pcall'.mod
        IN /\ pcall'.out = RefsOf(tables, m)
           /\ \A m2 \in ModuleNames \ {m} : tables'[m2] = tables[m2]
           /\ Len(tables'[m]) = Len(tables[m])
           /\ \A k \in 1..Len(tables[m]) :
                 tables'[m][k] =
                     IF /\ tables[m][k].type = "pattern"
                        /\ tables[m][k].namespace = None
                        /\ pcall'.namespace \notin {None, <<>>}
                     THEN [tables[m][k] EXCEPT !.namespace = pcall'.namespace]
                     ELSE tables[m][k]
    ]_vars

\* C14 witness: patterns was called with a namespace on a list that holds a
\* pattern without namespace, now stamped, and an Include without namespace,
\* still without.
C14_Witness ==
    /\ pcall.n > 0 /\ Truthy(pcall.namespace)
    /\ \E j, k \in 1..Len(tables[pcall.mod]) :
          /\ declared[pcall.mod][j].type = "pattern"
          /\ declared[pcall.mod][j].namespace = None
          /\ tables[pcall.mod][j].namespace = pcall.namespace
          /\ tables[pcall.mod][k].type = "include"
          /\ tables[pcall.mod][k].namespace = None

---------------------------------------------------------------------------
(* The legacy Router of routing/patterns.py (specification SpecRouter):    *)
(* commands is a dict keyed by the command literal, callbacks and messages *)
(* are lists.  A dict is a function whose domain is its set of keys.       *)

MaxRegistrations == 4

RouterLiterals == {<<"a">>, <<"b">>}
RouterHandlers == {"f", "g"}
RouterNames == {None}

\* Route(kind, pattern, handler, name=name)
Route(kind, pattern, h, name) ==
    [kind |-> kind, pattern |-> pattern, handler |-> h, name |-> name]

\* d[key] = value on a dict
DictSet(d, key, value) ==
    [k \in DOMAIN d \cup {key} |-> IF k = key THEN value ELSE d[k]]

InitRouter ==
    /\ LoadIdle /\ FlattenIdle /\ RouterIdle
    /\ patterns = <<>> /\ compiled = <<>> /\ handler = <<>>
    /\ phase = "new" /\ call = NoCall
    /\ env = StaticEnv

\* A registration that keeps the route a literal already has (setdefault).
add_command_mut(pattern, h, name) ==
    /\ Len(regs) < MaxRegistrations
    /\ router' = [router EXCEPT !.commands =
                     IF pattern \in DOMAIN @ THEN @
                     ELSE DictSet(@, pattern, Route("command", pattern, h, name))]
    /\ regs' = Append(regs, Route("command", pattern, h, name))
    /\ UNCHANGED <<dispVars, loadVars, flatVars>>

\* Router.add_command
add_command(pattern, h, name) ==
    /\ Len(regs) < MaxRegistrations
    /\ router' = [router EXCEPT !.commands =
                     DictSet(@, pattern, Route("command", pattern, h, name))]
    /\ regs' = Append(regs, Route("command", pattern, h, name))
    /\ UNCHANGED <<dispVars, loadVars, flatVars>>

\* Router.add_callback
add_callback(pattern, h, name) ==
    /\ Len(regs) < MaxRegistrations
    /\ router' = [router EXCEPT !.callbacks =
                     Append(@, Route("callback", pattern, h, name))]
    /\ regs' = Append(regs, Route("callback", pattern, h, name))
    /\ UNCHANGED <<dispVars, loadVars, flatVars>>

\* Router.add_message
add_message(pattern, h, name) ==
    /\ Len(regs) < MaxRegistrations
    /\ router' = [router EXCEPT !.messages =
                     Append(@, Route("message", pattern, h, name))]
    /\ regs' = Append(regs, Route("message", pattern, h, name))
    /\ UNCHANGED <<dispVars, loadVars, flatVars>>

NextRouter ==
    \E pattern \in RouterLiterals, h \in RouterHandlers, name \in RouterNames :
        \/ add_command(pattern, h, name)
        \/ add_callback(pattern, h, name)
        \/ add_message(pattern, h, name)

SpecRouter == InitRouter /\ [][NextRouter]_vars

\* The registrations made with kind k, in registration order.
RegsOfKind(k) == SelectSeq(regs, LAMBDA r : r.kind = k)

\* The positions in regs of the add_command calls for literal c.
CommandRegs(c) == {i \in 1..Len(regs) : regs[i].kind = "command" /\ regs[i].pattern = c}

\* C15: after any sequence of registrations, commands has exactly one entry
\* per registered command literal, the route of the literal's last
\* registration; callbacks and messages hold every registration made with
\* their kind, duplicates included, in registration order.
C15_RouterAsymmetry ==
    /\ DOMAIN router.commands = {c \in RouterLiterals : CommandRegs(c) # {}}
    /\ \A c \in DOMAIN router.commands :
          \E i \in CommandRegs(c) :
              /\ \A j \in CommandRegs(c) : j <= i
              /\ router.commands[c] = regs[i]
    /\ router.callbacks = RegsOfKind("callback")
    /\ router.messages = RegsOfKind("message")

\* C15 witness: a command literal was registered twice with different
\* handlers and the same callback route was registered twice.
C15_Witness ==
    /\ \E i, j \in 1..Len(regs) :
          /\ i < j /\ regs[i].kind = "command" /\ regs[j].kind = "command"
          /\ regs[i].pattern = regs[j].pattern
          /\ regs[i].handler # regs[j].handler
    /\ Len(router.callbacks) = 2
    /\ router.callbacks[1] = router.callbacks[2]

---------------------------------------------------------------------------
(* Include de-duplication in flatten (SpecFlatten).                        *)

\* The Include entries of the lists this call iterated, each with its place.
IncludePlaces ==
    UNION {{Append(pre, k) :
                k \in {j \in 1..Len(declared[ListAt(pre)]) :
                          declared[ListAt(pre)][j].type = "include"}} :
           pre \in ExpandedPaths}
IncludeAt(q) ==
    declared[ListAt(SubSeq(q, 1, Len(q) - 1))][q[Len(q)]]

\* Path p is path q or comes before it in depth-first order.
LexLeq(p, q) == p = q \/ LexLess(p, q)

\* Each distinct target string was resolved at most once, at the first
\* Include (in depth-first order) that carries it, and an Include that was
\* not expanded has no pattern of the output under it.
C18_TargetStringOnce ==
    FlattenDone =>
        /\ \A a, b \in 1..Len(resolved) :
              resolved[a].target = resolved[b].target => a = b
        /\ \A q \in IncludePlaces :
              \E a \in 1..Len(resolved) :
                  /\ resolved[a].target = IncludeAt(q).target
                  /\ LexLeq(resolved[a].path, q)
        /\ \A k \in Items : \A n \in 1..(Len(result[k].path) - 1) :
              SubSeq(result[k].path, 1, n) \in ExpandedPaths

\* A list reached through Includes appears once in the output: no pattern
\* object stands twice among the patterns that came in through Includes.
TableAppearsOnce ==
    \A j, k \in Items :
        (/\ Len(result[j].path) >= 2 /\ Len(result[k].path) >= 2
         /\ result[j].ref = result[k].ref) => j = k

\* C18 (as claimed): within one flatten call each distinct Include target
\* string is resolved and expanded at most once, a later Include with the
\* same target string contributes no patterns, and so a list reached by two
\* include paths appears once in the output, at the place of the first path
\* in depth-first order.
C18_IncludeDedup ==
    /\ C18_TargetStringOnce
    /\ FlattenDone => TableAppearsOnce

---------------------------------------------------------------------------
(* Namespaces over repeated patterns and flatten calls (SpecTables).       *)

\* C19: across any sequence of patterns() and flatten() calls over the same
\* Pattern and Include objects, no step takes an entry's namespace from a
\* value to another value or back to unset: a namespace changes only from
\* unset to a value.  A list flattened under namespace "a" keeps "a" on its
\* patterns when it is flattened under "b" later.
C19_NamespaceWriteOnce ==
    [][\A m \in ModuleNames :
          /\ Len(tables'[m]) = Len(tables[m])
          /\ \A k \in 1..Len(tables[m]) :
                \/ tables'[m][k].namespace = tables[m][k].namespace
                \/ /\ tables[m][k].namespace = None
                   /\ tables'[m][k].namespace # None
    ]_vars

\* C19 witness: with no patterns() call made, a second flatten call has
\* expanded an Include with namespace "b" whose list holds a pattern that
\* carries the namespace "a" of the first call.
C19_Witness ==
    /\ FlattenDone /\ fl.calls = 2 /\ pcall.n = 0
    /\ \E a \in 1..Len(resolved) :
          /\ IncludeAt(resolved[a].path).namespace = <<"b">>
          /\ \E k \in 1..Len(tables[ModuleRef(resolved[a].target)]) :
                /\ tables[ModuleRef(resolved[a].target)][k].type = "pattern"
                /\ tables[ModuleRef(resolved[a].target)][k].namespace = <<"a">>

===========================================================================
